---- MODULE Spec2Model ----
(***************************************************************************)
(* Model of topomax's optimisation driver (src/src/solver.py), the          *)
(* abstract physical model it drives (src/src/problem.py) and the design    *)
(* parser that feeds it (src/designs/design_parser.py).                     *)
(*                                                                         *)
(* Fields are symbolic terms (how they were computed): their values come    *)
(* from dolfin and the physical model, which are outside the repository.    *)
(* Objective values are IEEE floats: a few finite values, NaN and the two   *)
(* infinities.  The volume error and the Newton step of the projector are   *)
(* integers counting units of 1e-13; the density change is an integer       *)
(* counting units of 1e-5.                                                  *)
(***************************************************************************)
EXTENDS Integers, Sequences, FiniteSets, TLC

(***************************************************************************)
(* Bounds of the model                                                     *)
(***************************************************************************)
\* finite objective values are 0 .. MaxObj
MaxObj == 1
\* a volume error that stands for every error above the volume tolerance
BigError == 2000
\* a volume error below the Newton tolerance times any derivative
SmallError == 5
\* Newton steps shorter than this leave an error below one unit (the error
\* after a Newton step is of second order in the step)
SecondOrderRange == 1000

(***************************************************************************)
(* IEEE floats                                                             *)
(***************************************************************************)
Fin(n) == [kind |-> "fin", val |-> n]
NaN == [kind |-> "nan", val |-> 0]
PosInf == [kind |-> "inf", val |-> 1]
NegInf == [kind |-> "inf", val |-> -1]
\* Python's None
NoFloat == [kind |-> "none", val |-> 0]

IsFinite(x) == x.kind = "fin"

\* a - b
Sub(a, b) ==
    IF a.kind = "nan" \/ b.kind = "nan" THEN NaN
    ELSE IF a.kind = "inf" /\ b.kind = "inf"
         THEN IF a.val = b.val THEN NaN ELSE a
    ELSE IF a.kind = "inf" THEN a
    ELSE IF b.kind = "inf" THEN [kind |-> "inf", val |-> -b.val]
    ELSE Fin(a.val - b.val)

\* a < b: every comparison with NaN is false
Lt(a, b) ==
    IF a.kind = "nan" \/ b.kind = "nan" THEN FALSE
    ELSE IF a.kind = "inf" THEN a.val < 0 /\ ~(b.kind = "inf" /\ b.val < 0)
    ELSE IF b.kind = "inf" THEN b.val > 0
    ELSE a.val < b.val

Min(a, b) == IF a < b THEN a ELSE b

Abs(x) == IF x < 0 THEN -x ELSE x

\* division rounded to the nearest integer, b > 0
RoundDiv(a, b) == (a + b \div 2) \div b

(***************************************************************************)
(* Fields as terms                                                         *)
(***************************************************************************)
NoField == [base |-> "none", n |-> 0, ops |-> <<>>]

\* rho.vector()[:] = volume_fraction
UniformDensity == [base |-> "uniform", n |-> 0, ops |-> <<>>]

\* the field Solver.project returns in iteration n
Projection(n) == [base |-> "project", n |-> n, ops |-> <<>>]

expit(x) == [x EXCEPT !.ops = Append(@, "expit")]

logit(x) == [x EXCEPT !.ops = Append(@, "logit")]

(***************************************************************************)
(* State                                                                   *)
(***************************************************************************)
VARIABLES
    state,                  \* RUNNING, CONVERGED, DIVERGED, EXHAUSTED, ABORTED
    pc,                     \* position in solve: iterate, project, evaluate, end
    k,                      \* loop index of solve
    rho,                    \* self.rho
    psi,
    previous_psi,
    objective,
    previous_objective,
    objective_difference,
    difference,
    snapshots,              \* save_rho calls so far: <<[k, rho], ...>>
    saved_objective,        \* objective written by the save_rho call after the loop
    model_rho,              \* Problem: the density calculate_objective last got
    gradient_point,         \* Problem: the density the last gradient was taken at
    c,                      \* project: the Newton iterate
    it,                     \* project: passes of the for loop completed
    error,                  \* project: error of the last pass
    derivative,             \* project: derivative of the last pass
    newton_step,            \* project: Newton step of the last pass
    warned,                 \* project: the non-convergence warning was printed
    projected,              \* project: the returned field
    residual,               \* dolfin: assemble(expit(half_step + c) * dx) - volume
    design,                 \* the design record json.load returned
    init_pc,                \* position in Solver.__init__: new, parsed, exit, ValueError, ready
    parameters,             \* self.parameters
    problem_inited          \* problem.init has been called

solveVars == <<k, rho, psi, previous_psi, objective, previous_objective,
               objective_difference, difference, snapshots, saved_objective,
               model_rho, gradient_point>>

projectVars == <<c, it, error, derivative, newton_step, warned, projected,
                 residual>>

initVars == <<design, init_pc, parameters, problem_inited>>

vars == <<state, pc, solveVars, projectVars, initVars>>

(***************************************************************************)
(* designs/design_parser.py and Solver.__init__                            *)
(***************************************************************************)
legal_objectives == {"minimize_power", "maximize_flow", "minimize_compliance"}

\* design records: the fields the parser branches on.  max_region is absent,
\* empty ({}: falsy for design.get) or present; well_formed is false when a
\* side name or a fixed-length tuple is malformed; flow_balanced is
\* abs(total_flow) <= 1e-14
Designs ==
    [problem : {"elasticity", "fluid", "other"},
     objective : legal_objectives \cup {"minimise_drag"},
     max_region : {"absent", "empty", "present"},
     zero_pressure : BOOLEAN,
     flow_balanced : BOOLEAN,
     well_formed : BOOLEAN]

NoParameters == [problem |-> "", objective |-> ""]

SolverParameters(d) == [problem |-> d.problem, objective |-> d.objective]

\* Side.from_string and to_tuple raise ValueError on malformed input
get_elasticity_arguments(d) ==
    IF ~d.well_formed THEN "ValueError" ELSE "returned"

\* a slip: the check is left out
MissingMaxRegionUnchecked(d) == FALSE

\* the check of the objective against the max region
MissingMaxRegion(d) == d.max_region # "present" /\ d.objective = "maximize_flow"

get_fluid_arguments(d) ==
    IF ~d.well_formed THEN "ValueError"
    ELSE IF ~d.zero_pressure /\ ~d.flow_balanced THEN "exit"
    ELSE IF MissingMaxRegion(d) THEN "exit"
    ELSE "returned"

parse_design(d) ==
    IF d.objective \notin legal_objectives THEN "exit"
    ELSE IF d.problem = "elasticity" THEN get_elasticity_arguments(d)
    ELSE get_fluid_arguments(d)

\* Solver.__init__ up to the return of parse_design
ParseDesign ==
    /\ init_pc = "new"
    /\ LET outcome == parse_design(design)
       IN  /\ init_pc' = IF outcome = "returned" THEN "parsed" ELSE outcome
           /\ parameters' = IF outcome = "returned" THEN SolverParameters(design)
                            ELSE parameters
    /\ UNCHANGED <<design, problem_inited, state, pc, solveVars, projectVars>>

\* the rest of Solver.__init__: domain, mesh, control space, problem.init
SolverInit ==
    /\ init_pc = "parsed"
    /\ init_pc' = "ready"
    /\ problem_inited' = TRUE
    /\ UNCHANGED <<design, parameters, state, pc, solveVars, projectVars>>

(***************************************************************************)
(* Physical model (Problem) and snapshot writer                            *)
(***************************************************************************)
\* float(problem.calculate_objective(rho)): any float
ObjectiveValues == {Fin(v) : v \in 0 .. MaxObj} \cup {NaN, PosInf, NegInf}

\* np.sqrt(df.assemble((rho - previous_rho) ** 2 * dx)), in units of 1e-5
DensityDeltas == {24, 25, 999, 1000}

\* save_rho(rho, objective, k): one more file, keyed k
save_rho(files, r, key) == Append(files, [k |-> key, rho |-> r])

(***************************************************************************)
(* Solver.step_size and the tolerances of Solver.solve                     *)
(***************************************************************************)
step_size(i) == 25 * (i + 1)

\* 1e-2 and 1e-5 in units of 1e-5
itol == 1000
ntol == 1

\* min(self.step_size(k) * ntol, itol)
tol(i) == Min(step_size(i) * ntol, itol)

\* range(500)
MaxIterations == 500

\* k % 10 == 0
SaveEvery == 10

SaveDue(i) == i % SaveEvery = 0

(***************************************************************************)
(* Solver.project                                                          *)
(***************************************************************************)
max_iterations == 10

\* 1e-12 in units of 1e-13
NewtonTol == 10

DerivativeIsZero(d) == d = 0

\* a slip: the zero derivative ends the loop instead of raising
ReturnOnZeroDerivative == [state |-> "RUNNING", pc |-> "evaluate"]

\* raise ValueError: it leaves project, step and solve
RaiseValueError == [state |-> "ABORTED", pc |-> "end"]

\* a slip: the tolerance of the break is 1e-9
ConvergedLoosely(step) == Abs(step) < 1000 * NewtonTol

\* abs(newton_step) < 1e-12
Converged(step) == Abs(step) < NewtonTol

\* error / derivative
NewtonStep(e, d) == RoundDiv(e, d)

\* the error of half_step + c after a Newton step
ResidualsAfter(step, E) == IF Abs(step) < SecondOrderRange THEN {0} ELSE E

\* one pass of the for loop of project (E, D: the errors and derivatives the
\* field can assemble to), with the raise, the break, the else branch and
\* the return
NewtonIteration(E, D) ==
    /\ state = "RUNNING"
    /\ pc = "project"
    /\ it < max_iterations
    /\ \E d \in D :
        /\ error' = residual
        /\ derivative' = d
        /\ \/ /\ DerivativeIsZero(d)
              /\ state' = RaiseValueError.state
              /\ pc' = RaiseValueError.pc
              /\ UNCHANGED <<c, it, newton_step, warned, projected, residual>>
           \/ /\ ~DerivativeIsZero(d)
              /\ newton_step' = NewtonStep(residual, d)
              /\ c' = c - newton_step'
              /\ it' = it + 1
              /\ residual' \in ResidualsAfter(newton_step', E)
              /\ UNCHANGED state
              /\ \/ /\ Converged(newton_step')
                    /\ pc' = "evaluate"
                    /\ projected' = Projection(k)
                    /\ UNCHANGED warned
                 \/ /\ ~Converged(newton_step')
                    /\ it' = max_iterations
                    /\ warned' = TRUE
                    /\ pc' = "evaluate"
                    /\ projected' = Projection(k)
                 \/ /\ ~Converged(newton_step')
                    /\ it' < max_iterations
                    /\ UNCHANGED <<pc, warned, projected>>
    /\ UNCHANGED <<solveVars, initVars>>

(***************************************************************************)
(* Solver.solve                                                            *)
(***************************************************************************)
\* the errors and derivatives the half steps of a run assemble to
RunErrors == {0, BigError}
RunDerivatives == {0, 1}

\* a design parse_design accepts
TriangleDesign ==
    [problem |-> "elasticity", objective |-> "minimize_compliance",
     max_region |-> "absent", zero_pressure |-> FALSE, flow_balanced |-> TRUE,
     well_formed |-> TRUE]

\* the solver once Solver.__init__ has returned
Constructed ==
    /\ design = TriangleDesign
    /\ init_pc = "ready"
    /\ parameters = SolverParameters(TriangleDesign)
    /\ problem_inited = TRUE

\* the locals of project outside a call
NoProjection ==
    /\ c = 0
    /\ it = 0
    /\ error = 0
    /\ derivative = 0
    /\ newton_step = 0
    /\ warned = FALSE
    /\ projected = NoField

\* solve up to the for loop
Init ==
    /\ Constructed
    /\ state = "RUNNING"
    /\ pc = "iterate"
    /\ k = 0
    /\ rho = UniformDensity
    /\ psi = logit(UniformDensity)
    /\ previous_psi = NoField
    /\ difference = PosInf
    /\ objective \in ObjectiveValues
    /\ model_rho = UniformDensity
    /\ previous_objective = NoFloat
    /\ objective_difference = NoFloat
    /\ snapshots = <<>>
    /\ saved_objective = NoFloat
    /\ gradient_point = NoField
    /\ NoProjection
    /\ residual = 0

\* top of the loop body, Solver.step and the entry of Solver.project
BeginIteration ==
    /\ state = "RUNNING"
    /\ pc = "iterate"
    /\ snapshots' = IF SaveDue(k) THEN save_rho(snapshots, rho, k) ELSE snapshots
    /\ previous_psi' = psi
    /\ gradient_point' = model_rho
    /\ c' = 0
    /\ it' = 0
    /\ residual' \in RunErrors
    /\ pc' = "project"
    /\ UNCHANGED <<state, k, rho, psi, objective, previous_objective,
                   objective_difference, difference, saved_objective, model_rho,
                   error, derivative, newton_step, warned, projected, initVars>>

\* objective_difference < 0
Increased(delta) == Lt(delta, Fin(0))

\* a slip: <= in place of <
AtOrBelowTolerance(delta, i) == ~Lt(Fin(tol(i)), delta)

\* difference < min(self.step_size(k) * ntol, itol)
BelowTolerance(delta, i) == Lt(delta, Fin(tol(i)))

\* a slip: the last snapshot is keyed by the last iteration itself
FinalKeyOffByOne(i) == i

\* the key of the save_rho call after the loop
FinalKey(i) == i + 1

\* a slip: the loop index does not advance
NextIndexStuck(i) == i

\* the next value of range(500)
NextIndex(i) == i + 1

\* a slip: the objective is evaluated before self.rho is updated
EvaluatedDensityStale(newRho, oldRho) == oldRho

\* the argument of calculate_objective after the step: self.rho, updated
EvaluatedDensity(newRho, oldRho) == newRho

\* the rest of the loop body once project has returned, and what follows
\* the loop when it ends here
Evaluate ==
    /\ state = "RUNNING"
    /\ pc = "evaluate"
    /\ psi' = projected
    /\ rho' = expit(psi')
    /\ previous_objective' = objective
    /\ objective' \in ObjectiveValues
    /\ model_rho' = EvaluatedDensity(rho', rho)
    /\ objective_difference' = Sub(previous_objective', objective')
    /\ \/ /\ Increased(objective_difference')
          /\ state' = "DIVERGED"
          /\ UNCHANGED difference
       \/ /\ ~Increased(objective_difference')
          /\ \E delta \in DensityDeltas : difference' = Fin(delta)
          /\ \/ /\ BelowTolerance(difference', k)
                /\ state' = "CONVERGED"
             \/ /\ ~BelowTolerance(difference', k)
                /\ NextIndex(k) < MaxIterations
                /\ state' = "RUNNING"
             \/ /\ ~BelowTolerance(difference', k)
                /\ NextIndex(k) >= MaxIterations
                /\ state' = "EXHAUSTED"
    /\ IF state' = "RUNNING"
       THEN /\ k' = NextIndex(k)
            /\ pc' = "iterate"
            /\ UNCHANGED <<snapshots, saved_objective>>
       ELSE /\ k' = k
            /\ pc' = "end"
            /\ snapshots' = save_rho(snapshots, rho', FinalKey(k))
            /\ saved_objective' = objective'
    /\ c' = 0
    /\ it' = 0
    /\ error' = 0
    /\ derivative' = 0
    /\ newton_step' = 0
    /\ warned' = FALSE
    /\ projected' = NoField
    /\ residual' = 0
    /\ UNCHANGED <<previous_psi, gradient_point, initVars>>

Next ==
    \/ BeginIteration
    \/ NewtonIteration(RunErrors, RunDerivatives)
    \/ Evaluate

Spec == Init /\ [][Next]_vars

(***************************************************************************)
(* Solver.project on its own, over the errors and derivatives a field and   *)
(* a target volume can assemble to                                          *)
(***************************************************************************)
ErrorInputs == {-BigError, -SmallError, 0, SmallError, BigError}
DerivativeInputs == {0, 1, 2}

InitProject ==
    /\ Constructed
    /\ state = "RUNNING"
    /\ pc = "project"
    /\ k = 0
    /\ rho = UniformDensity
    /\ psi = logit(UniformDensity)
    /\ previous_psi = psi
    /\ difference = PosInf
    /\ objective = Fin(MaxObj)
    /\ model_rho = UniformDensity
    /\ previous_objective = NoFloat
    /\ objective_difference = NoFloat
    /\ snapshots = save_rho(<<>>, rho, 0)
    /\ saved_objective = NoFloat
    /\ gradient_point = UniformDensity
    /\ NoProjection
    /\ residual \in ErrorInputs

NextProject == NewtonIteration(ErrorInputs, DerivativeInputs)

SpecProject == InitProject /\ [][NextProject]_vars

(***************************************************************************)
(* Solver.__init__ over the design records                                  *)
(***************************************************************************)
InitConstruct ==
    /\ design \in Designs
    /\ init_pc = "new"
    /\ parameters = NoParameters
    /\ problem_inited = FALSE
    /\ state = "RUNNING"
    /\ pc = "iterate"
    /\ k = 0
    /\ rho = NoField
    /\ psi = NoField
    /\ previous_psi = NoField
    /\ difference = NoFloat
    /\ objective = NoFloat
    /\ model_rho = NoField
    /\ previous_objective = NoFloat
    /\ objective_difference = NoFloat
    /\ snapshots = <<>>
    /\ saved_objective = NoFloat
    /\ gradient_point = NoField
    /\ NoProjection
    /\ residual = 0

NextConstruct == ParseDesign \/ SolverInit

SpecConstruct == InitConstruct /\ [][NextConstruct]_vars

(***************************************************************************)
(* Properties                                                              *)
(***************************************************************************)
Stopped == {"CONVERGED", "DIVERGED", "EXHAUSTED"}

\* a > b
Gt(a, b) == Lt(b, a)

\* a <= b as IEEE compares: false when either is NaN
Leq(a, b) == a.kind # "nan" /\ b.kind # "nan" /\ ~Lt(b, a)

\* the steps solve can still take: each pass of the outer loop is at most
\* one entry, 10 Newton passes and one evaluation
Rank ==
    IF pc = "end" THEN 0
    ELSE (500 - k) * 13
         - (IF pc = "iterate" THEN 0 ELSE IF pc = "project" THEN 1 + it ELSE 12)

\* C1 as stated: every run of solve ends in CONVERGED, DIVERGED or
\* EXHAUSTED, whatever the physical model and the projector do.
C1_EndsConvergedDivergedOrExhausted == pc = "end" => state \in Stopped

\* C1 as amended: solve never loops indefinitely.  Every step uses up some
\* of a budget of 500 outer iterations with at most 10 Newton iterations
\* each, solve can always take a step until it has ended, and it ends in
\* CONVERGED, DIVERGED or EXHAUSTED, or aborted by the ValueError of
\* project.
C1_TerminatesWithinBudget ==
    /\ [][Rank' < Rank]_vars
    /\ [](/\ Rank >= 0
          /\ k < 500
          /\ it <= 10
          /\ (pc = "end") = (state \in Stopped \cup {"ABORTED"})
          /\ (pc # "end" => ENABLED Next))

C1_Witness == state = "EXHAUSTED" /\ k = 499

\* C2: when solve ends in CONVERGED, DIVERGED or EXHAUSTED after
\* iteration k, the last save_rho call is the only one keyed k + 1 and it
\* wrote the current density and the current objective; before that no
\* snapshot is keyed above the current iteration.
C2_FinalSnapshot ==
    /\ state \in Stopped =>
          /\ Len(snapshots) > 0
          /\ snapshots[Len(snapshots)] = [k |-> k + 1, rho |-> rho]
          /\ saved_objective = objective
          /\ \A i \in 1 .. Len(snapshots) - 1 : snapshots[i].k <= k
    /\ state \notin Stopped =>
          /\ saved_objective = NoFloat
          /\ \A i \in 1 .. Len(snapshots) : snapshots[i].k <= k

C2_Witness == state = "CONVERGED" /\ k = 9 /\ Len(snapshots) = 2

\* C3: after every step that did not end the run in DIVERGED, the new
\* objective is less than or equal to the previous one; a step whose
\* objective_difference is negative ends the run in DIVERGED at once.
C3_DescentOrStop ==
    /\ (previous_objective # NoFloat /\ state # "DIVERGED")
          => Leq(objective, previous_objective)
    /\ (objective_difference # NoFloat /\ Lt(objective_difference, Fin(0)))
          => (state = "DIVERGED" /\ pc = "end")

\* C4: once the physical model has returned a non-finite objective, solve
\* does not go on iterating, does not end in CONVERGED and writes no final
\* snapshot of it.
C4_NonFiniteObjectiveStops ==
    ~IsFinite(objective) =>
        /\ pc \notin {"project", "evaluate"}
        /\ state # "CONVERGED"
        /\ saved_objective = NoFloat

\* C5: whenever the gradient has been taken for a step, it was taken at the
\* density calculate_objective last got, that density is still self.rho,
\* and the step starts from it: previous_psi is its logit (first
\* iteration) or it is the expit of previous_psi (later iterations).
C5_GradientFollowsObjective ==
    pc \in {"project", "evaluate"} =>
        /\ gradient_point # NoField
        /\ gradient_point = rho
        /\ gradient_point = model_rho
        /\ IF k = 0 THEN previous_psi = logit(rho) /\ rho = UniformDensity
           ELSE rho = expit(previous_psi) /\ previous_psi = Projection(k - 1)

C5_Witness == pc = "project" /\ k = 2 /\ it = 0

\* C6: a Newton pass that assembles a zero derivative raises at once: c and
\* the pass count stay, nothing is returned, psi, the density, the
\* objective and the snapshots stay, the run is aborted, and an aborted run
\* takes no further step.
C6_ZeroDerivativeAborts ==
    /\ [][(pc = "project" /\ derivative' = 0) =>
            /\ state' = "ABORTED"
            /\ pc' = "end"
            /\ c' = c
            /\ it' = it
            /\ projected' = NoField
            /\ psi' = psi
            /\ rho' = rho
            /\ objective' = objective
            /\ snapshots' = snapshots
            /\ saved_objective' = NoFloat]_vars
    /\ [](state = "ABORTED" => (derivative = 0 /\ ~ENABLED Next))

C6_Witness == state = "ABORTED" /\ k = 1 /\ it = 3 /\ c # 0

\* 1e-10 in units of 1e-13
VolTol == 100 * NewtonTol

C8_MaximizeFlowNeedsRegion ==
    (design.objective = "maximize_flow" /\ design.max_region # "present")
        => (init_pc \in {"new", "exit", "ValueError"}
            /\ parameters = NoParameters /\ ~problem_inited)

\* C8 as amended: a maximize_flow design without a max region whose
\* problem is not elasticity is rejected: no parameters, no problem.init.
C8_FluidMaximizeFlowNeedsRegion ==
    (design.objective = "maximize_flow" /\ design.max_region # "present"
     /\ design.problem # "elasticity")
        => (init_pc \in {"new", "exit", "ValueError"}
            /\ parameters = NoParameters /\ ~problem_inited)

C8_Witness ==
    /\ design.objective = "maximize_flow"
    /\ design.max_region = "empty"
    /\ design.problem = "other"
    /\ design.well_formed
    /\ design.zero_pressure
    /\ init_pc = "exit"

\* the cadence the caller asks for (skip_multiple=999)
skip_multiple == 999

\* C9: the snapshots written inside the loop are those of the iterations
\* whose index is a multiple of the configured cadence, and the only other
\* snapshot is the one after the loop.
C9_ConfiguredCadence ==
    LET inLoop == IF state \in Stopped THEN Len(snapshots) - 1
                  ELSE Len(snapshots)
        started == IF pc = "iterate" THEN k ELSE k + 1
    IN  /\ \A i \in 1 .. inLoop : snapshots[i].k % skip_multiple = 0
        /\ inLoop = Cardinality({j \in 0 .. started - 1 : j % skip_multiple = 0})

\* min(25 * (i + 1) * 1e-5, 1e-2) in units of 1e-5
ClaimedTol(i) == IF 25 * (i + 1) < 1000 THEN 25 * (i + 1) ELSE 1000

\* C10: the run ends in CONVERGED exactly when the step did not increase
\* the objective and the density change is below tol(k); a step that did
\* not increase the objective and changed the density by tol(k) or more
\* continues (or exhausts the budget); tol is 2.5e-4 at k = 0, does not
\* decrease and is 1e-2 from k = 39 on.
C10_ConvergedBelowTolerance ==
    /\ state = "CONVERGED" =>
          /\ ~Gt(objective, previous_objective)
          /\ difference.val < ClaimedTol(k)
    /\ state = "DIVERGED" => Gt(objective, previous_objective)
    /\ state = "EXHAUSTED" =>
          /\ ~Gt(objective, previous_objective)
          /\ difference.val >= ClaimedTol(k)
    /\ (state = "RUNNING" /\ k > 0) =>
          /\ ~Gt(objective, previous_objective)
          /\ difference.val >= ClaimedTol(k - 1)
    /\ tol(k) = ClaimedTol(k)
    /\ tol(0) = 25
    /\ tol(k) <= tol(k + 1)
    /\ k >= 39 => tol(k) = 1000

C10_Witness == state = "CONVERGED" /\ k = 40 /\ difference = Fin(999)

====
